---- MODULE Spec2Model ----
(***************************************************************************)
(* Job queue of restinpieces-sqlite-crawshaw (src/crawshaw/queue.go).      *)
(*                                                                         *)
(* The job_queue table is a sequence of rows; the id of a row is its index *)
(* (AUTOINCREMENT primary key, rows are never deleted).  Two workers call  *)
(* the queue operations concurrently, each on a connection of the pool.    *)
(* A single SQL statement is one atomic step of the engine; the            *)
(* transaction of MarkRecurrentCompleted is a sequence of steps that holds *)
(* the engine's write lock from BEGIN IMMEDIATE to COMMIT/ROLLBACK.        *)
(*                                                                         *)
(* Time is counted in ticks, TicksPerSecond ticks to the second, so that   *)
(* the second resolution of the stored timestamps is visible.  A stored    *)
(* timestamp is the text the code stores: a fixed-width sequence of        *)
(* decimal digits (the width is fixed for the years 0000..9999, which is   *)
(* the domain modelled), the empty sequence when unset; the engine         *)
(* compares these texts character by character.                            *)
(*                                                                         *)
(* Columns payload_extra, created_at and updated_at are written by the     *)
(* statements but read by no condition of the operations modelled here;    *)
(* they are left out of the row.                                           *)
(*                                                                         *)
(* The users table (CreateUserWithPassword, CreateUserWithOauth2) and the  *)
(* app_config table (InsertConfig, LatestConfig) are sequences of rows as  *)
(* well, with the columns their statements test or set.                    *)
(***************************************************************************)
EXTENDS Integers, Sequences, FiniteSets, TLC

\* ---------------------------------------------------------------- bounds
NumPayloads == 2
MaxTick == 2
MaxClaims == 2
PoolSize == 2
TicksPerSecond == 2
Day == 2
MaxConfigs == 3

Workers == {"w1", "w2"}
NoWriter == "none"
NilSlice == [isNil |-> TRUE, items |-> <<>>]
ZeroTime == 0 - 1

\* ------------------------------------------------------- text and time
Min(a, b) == IF a < b THEN a ELSE b

\* Lexicographic order on texts, as SQLite's BINARY collation compares them.
RECURSIVE StrLeq(_, _)
StrLeq(a, b) ==
    IF a = <<>> THEN TRUE
    ELSE IF b = <<>> THEN FALSE
    ELSE IF a[1] < b[1] THEN TRUE
    ELSE IF a[1] > b[1] THEN FALSE
    ELSE StrLeq(Tail(a), Tail(b))

\* db.TimeFormat: UTC, RFC3339, second resolution (the fraction is dropped).
TimeFormat(t) ==
    LET s == t \div TicksPerSecond
    IN  <<s \div 10, s % 10>>

\* db.TimeParse of a stored text: the instant at the start of that second.
TimeParse(str) == (str[1] * 10 + str[2]) * TicksPerSecond

\* strftime('%Y-%m-%dT%H:%M:%SZ', 'now') evaluated by the engine at time t.
Strftime(t) == TimeFormat(t)

\* time.Duration.String of an interval of d ticks: whole seconds and the
\* fraction of a second, both written out ("24h0m0s", "1.5s").
DurationString(d) == <<d \div TicksPerSecond, d % TicksPerSecond>>

\* time.ParseDuration of such a text.
ParseDuration(str) == str[1] * TicksPerSecond + str[2]

\* A faulty variant of scheduledForStr: the time is never written.
ScheduledForStrUnset(t) == <<>>

\* scheduledForStr of InsertJob / MarkRecurrentCompleted.
ScheduledForStr(t) == IF t = ZeroTime THEN <<>> ELSE TimeFormat(t)

\* ------------------------------------------------------------- inputs
JobTypes == {"", "email"}
Payloads == {<<>>} \cup {<<k>> : k \in 1..NumPayloads}
SchedInputs == {ZeroTime, MaxTick + 1}
Limits == (0 - 1)..NumPayloads
ErrMsgs == {"", "smtp down"}
JobIDs == 1..NumPayloads
Emails == {"a@example.org", "b@example.org"}
Passwords == {"", "pw1", "pw2"}
UserInputs == [Email : Emails, Password : Passwords]
Scopes == {"application", "log"}
Contents == {<<1>>, <<2>>}
JobInputs ==
    [JobType : JobTypes, Payload : Payloads, Attempts : {0, 1},
     ScheduledFor : SchedInputs, MaxAttempts : {1}, Recurrent : {FALSE},
     Interval : {0}]

\* A recurring job, due at once, that recurs every Day ticks.
RecurringInputs ==
    [JobType : {"email"}, Payload : Payloads \ {<<>>}, Attempts : {0},
     ScheduledFor : {ZeroTime}, MaxAttempts : {1}, Recurrent : {TRUE},
     Interval : {Day}]

\* Payloads are opaque and interchangeable: a call on table tbl is given the
\* empty payload, a payload some row already has, or the next unused one.
JobInputsFor(tbl) ==
    {job \in JobInputs :
        job.Payload = <<>> \/ job.Payload[1] <= Len(tbl) + 1}

\* ------------------------------------------------------------- state
VARIABLES
    jobs,      \* committed content of job_queue
    now,       \* wall clock, in ticks
    pc,        \* pc[w]: the call (and statement) worker w is in
    free,      \* number of connections in the pool
    arg,       \* arg[w]: completedJobID of a running MarkRecurrentCompleted
    writer,    \* the worker whose connection has a transaction open (it
               \* holds the engine's write lock), or NoWriter
    txJobs,    \* content of job_queue as seen inside the open transaction
    out,       \* what Claim or MarkRecurrentCompleted returned, in the state
               \* that follows its return
    race,      \* bookkeeping of two overlapping Claim calls
    users,     \* content of the users table
    app_config \* content of the app_config table

vars == <<jobs, now, pc, free, arg, writer, txJobs, out, race, users, app_config>>

NoErr == "nil"

\* fmt.Errorf("<msg>: %w", err): a new error value that wraps err.
Errorf(msg, err) == msg \o ": " \o err

\* db.Job{}: the zero value of a job.
NoJob ==
    [JobType |-> "", Payload |-> <<>>, Attempts |-> 0, ScheduledFor |-> ZeroTime,
     MaxAttempts |-> 0, Recurrent |-> FALSE, Interval |-> 0]

\* (*db.User)(nil), and db.User{} in the columns modelled.
NilUser == [isNil |-> TRUE, Email |-> "", Password |-> "", Oauth2 |-> FALSE]
NoUser == [Email |-> "", Password |-> ""]

\* []byte(nil): no content.
NoContent == <<>>

\* op, err and jobs are the call and its results; arg is the call's argument
\* (limit of Claim, completedJobID of MarkRecurrentCompleted, jobID of
\* MarkCompleted and MarkFailed), msg the errMsg of MarkFailed, was the status
\* the row jobID had when MarkCompleted or MarkFailed was called, job the job
\* of InsertJob; given and user are the user passed to and returned by
\* CreateUserWithPassword and CreateUserWithOauth2, scope and content the
\* argument and the result of LatestConfig.
NoOut ==
    [op |-> "none", err |-> NoErr, jobs |-> NilSlice, arg |-> 0, msg |-> "",
     was |-> "none", job |-> NoJob, given |-> NoUser, user |-> NilUser,
     scope |-> "", content |-> NoContent]
NoRace ==
    [phase |-> "none", n |-> 0, ids1 |-> {}, ids2 |-> {}, lim1 |-> 0, lim2 |-> 0]

Init ==
    /\ jobs = <<>>
    /\ now = 0
    /\ pc = [w \in Workers |-> "idle"]
    /\ free = PoolSize
    /\ arg = [w \in Workers |-> 0]
    /\ writer = NoWriter
    /\ txJobs = <<>>
    /\ out = NoOut
    /\ race = NoRace
    /\ users = <<>>
    /\ app_config = <<>>

\* ------------------------------------------------------ engine, pool
\* The table a statement of worker w's connection reads: its own open
\* transaction's content, else the committed content (no dirty reads).
View(w) == IF writer = w THEN txJobs ELSE jobs

\* A statement that writes runs when no other connection holds the write lock.
CanWrite(w) == writer \in {NoWriter, w}

\* ------------------------------------------------- the SQL statements
Ids(tbl) == [i \in 1..Len(tbl) |-> i]

\* Faulty variants of the WHERE clause: one that also takes rows in
\* processing, one that forgets the failed rows, and the clause without its
\* scheduled_for condition.
EligibleWithProcessing(row, nowStr) ==
    /\ row.status \in {"pending", "failed", "processing"}
    /\ StrLeq(row.scheduled_for, nowStr)

EligiblePendingOnly(row, nowStr) ==
    /\ row.status = "pending"
    /\ StrLeq(row.scheduled_for, nowStr)

EligibleUnscheduled(row, nowStr) ==
    row.status \in {"pending", "failed"}

\* WHERE status IN ('pending', 'failed') AND scheduled_for <= strftime(..., 'now')
Eligible(row, nowStr) ==
    /\ row.status \in {"pending", "failed"}
    /\ StrLeq(row.scheduled_for, nowStr)

\* LIMIT ?: the first n of the sequence; a negative LIMIT is no limit in SQLite.
Take(seq, n) ==
    IF n < 0 THEN seq ELSE SubSeq(seq, 1, Min(n, Len(seq)))

\* SELECT id FROM job_queue WHERE ... ORDER BY id ASC LIMIT ?
SelectIds(tbl, nowStr, limit) ==
    LET Test(i) == Eligible(tbl[i], nowStr)
    IN  Take(SelectSeq(Ids(tbl), Test), limit)

Range(seq) == {seq[i] : i \in 1..Len(seq)}

\* A faulty variant of the UPDATE of Claim: attempts is left as it is.
ClaimUpdateSameAttempts(tbl, ids, nowStr) ==
    [i \in 1..Len(tbl) |->
        IF i \in Range(ids)
        THEN [tbl[i] EXCEPT !.status = "processing", !.locked_at = nowStr]
        ELSE tbl[i]]

\* UPDATE job_queue SET status = 'processing', locked_at = now,
\*   attempts = attempts + 1 WHERE id IN (...)
ClaimUpdate(tbl, ids, nowStr) ==
    [i \in 1..Len(tbl) |->
        IF i \in Range(ids)
        THEN [tbl[i] EXCEPT !.status = "processing",
                            !.locked_at = nowStr,
                            !.attempts = @ + 1]
        ELSE tbl[i]]

\* Whether db.TimeParse, time.ParseDuration accept a stored text: a timestamp
\* is two digits of seconds, a duration its seconds and its fraction.
TimeOk(str) == Len(str) = 2
DurationOk(str) == Len(str) = 2

\* A stored text that is neither a timestamp nor a duration.
Malformed == <<0>>

\* The error of the row callback of Claim for a RETURNING row, NoErr when
\* every column parses; an empty optional column is not parsed.
CallbackError(row) ==
    IF row.scheduled_for # <<>> /\ ~TimeOk(row.scheduled_for)
    THEN "error parsing scheduled_for time"
    ELSE IF row.locked_at # <<>> /\ ~TimeOk(row.locked_at)
    THEN "error parsing locked_at time"
    ELSE IF row.completed_at # <<>> /\ ~TimeOk(row.completed_at)
    THEN "error parsing completed_at time"
    ELSE IF row.interval # <<>> /\ ~DurationOk(row.interval)
    THEN "error parsing interval duration"
    ELSE NoErr

\* Optional time column read back by the row callback of Claim.
ParseOpt(str) == IF str = <<>> THEN ZeroTime ELSE TimeParse(str)

\* The db.Job the row callback of Claim builds from one RETURNING row.
JobFromStmt(id, row) ==
    [ID |-> id,
     JobType |-> row.job_type,
     Payload |-> row.payload,
     Status |-> row.status,
     Attempts |-> row.attempts,
     MaxAttempts |-> row.max_attempts,
     Recurrent |-> row.recurrent # 0,
     Interval |-> ParseDuration(row.interval),
     ScheduledFor |-> ParseOpt(row.scheduled_for),
     LockedBy |-> row.locked_by,
     LockedAt |-> ParseOpt(row.locked_at),
     CompletedAt |-> ParseOpt(row.completed_at),
     LastError |-> row.last_error]

\* RETURNING ...: one callback per updated row, in the order the UPDATE visits
\* the rows of "id IN (...)", which is ascending rowid; each callback appends.
Returning(tbl, ids) ==
    [k \in 1..Len(ids) |-> JobFromStmt(ids[k], tbl[ids[k]])]

\* A faulty variant of the return of Claim: the nil slice is returned as it is.
NilKept(js) == js

\* if jobs == nil { jobs = []*db.Job{} }
NilToEmpty(js) == IF js.isNil THEN [isNil |-> FALSE, items |-> <<>>] ELSE js

\* The jobs slice after the callbacks: nil until the first append.
Appended(rows) ==
    IF rows = <<>> THEN NilSlice ELSE [isNil |-> FALSE, items |-> rows]

\* Faulty variants of the UPDATE of MarkCompleted: the row is deleted;
\* last_error is left as it is; attempts is set back to zero.
CompleteUpdateDeletes(tbl, id, nowStr) ==
    IF id \in 1..Len(tbl)
    THEN SubSeq(tbl, 1, id - 1) \o SubSeq(tbl, id + 1, Len(tbl))
    ELSE tbl

CompleteUpdateKeepsError(tbl, id, nowStr) ==
    [i \in 1..Len(tbl) |->
        IF i = id
        THEN [tbl[i] EXCEPT !.status = "completed",
                            !.completed_at = nowStr,
                            !.locked_at = <<>>]
        ELSE tbl[i]]

CompleteUpdateResetsAttempts(tbl, id, nowStr) ==
    [i \in 1..Len(tbl) |->
        IF i = id
        THEN [tbl[i] EXCEPT !.status = "completed",
                            !.completed_at = nowStr,
                            !.locked_at = <<>>,
                            !.last_error = "",
                            !.attempts = 0]
        ELSE tbl[i]]

\* UPDATE job_queue SET status = 'completed', completed_at = now,
\*   locked_at = '', last_error = '' WHERE id = ?
CompleteUpdate(tbl, id, nowStr) ==
    [i \in 1..Len(tbl) |->
        IF i = id
        THEN [tbl[i] EXCEPT !.status = "completed",
                            !.completed_at = nowStr,
                            !.locked_at = <<>>,
                            !.last_error = ""]
        ELSE tbl[i]]

\* A faulty variant of the UPDATE of MarkFailed: completed_at is cleared too.
FailUpdateClearsCompleted(tbl, id, errMsg) ==
    [i \in 1..Len(tbl) |->
        IF i = id
        THEN [tbl[i] EXCEPT !.status = "failed",
                            !.locked_at = <<>>,
                            !.completed_at = <<>>,
                            !.last_error = errMsg]
        ELSE tbl[i]]

\* UPDATE job_queue SET status = 'failed', locked_at = '', last_error = ?
\*   WHERE id = ?
FailUpdate(tbl, id, errMsg) ==
    [i \in 1..Len(tbl) |->
        IF i = id
        THEN [tbl[i] EXCEPT !.status = "failed",
                            !.locked_at = <<>>,
                            !.last_error = errMsg]
        ELSE tbl[i]]

\* The schema's constraints on a new row: CHECK job_type and payload non-empty,
\* payload unique (the insert tests expect an error for each).
ConstraintOk(tbl, job) ==
    /\ job.JobType # ""
    /\ job.Payload # <<>>
    /\ \A i \in 1..Len(tbl) : tbl[i].payload # job.Payload

\* INSERT INTO job_queue (job_type, payload, payload_extra, attempts,
\*   max_attempts, recurrent, interval, scheduled_for) VALUES (...):
\* the columns not listed take the schema's defaults.
InsertRow(tbl, job) ==
    Append(tbl,
        [job_type |-> job.JobType,
         payload |-> job.Payload,
         status |-> "pending",
         attempts |-> job.Attempts,
         max_attempts |-> job.MaxAttempts,
         recurrent |-> IF job.Recurrent THEN 1 ELSE 0,
         interval |-> DurationString(job.Interval),
         scheduled_for |-> ScheduledForStr(job.ScheduledFor),
         locked_by |-> "",
         locked_at |-> <<>>,
         completed_at |-> <<>>,
         last_error |-> ""])

\* COMMIT makes the transaction's content the committed content; ROLLBACK
\* keeps the committed content.
Commit(tx, committed) == tx

\* A faulty variant of ROLLBACK: what the transaction wrote is kept.
RollbackKeeps(tx, committed) == tx

Rollback(tx, committed) == committed

\* A faulty variant of BEGIN IMMEDIATE: no transaction is opened, so every
\* statement of the connection commits on its own.
TxBeginOmitted(w) == NoWriter

\* BEGIN IMMEDIATE on worker w's connection: that connection now has the
\* transaction open and holds the write lock.
TxBegin(w) == w

\* ------------------------------------------------------------ actions
Other(w) == CHOOSE v \in Workers : v # w

Returned(op, err, js, a) ==
    [NoOut EXCEPT !.op = op, !.err = err, !.jobs = js, !.arg = a]

\* The status of row id of tbl, "none" when tbl has no such row.
StatusOf(tbl, id) == IF id \in 1..Len(tbl) THEN tbl[id].status ELSE "none"

\* What MarkCompleted and MarkFailed return when their statement has run: nil.
Marked(op, tbl, jobID, errMsg) ==
    [NoOut EXCEPT !.op = op, !.arg = jobID, !.msg = errMsg,
                  !.was = StatusOf(tbl, jobID)]

EligibleCount(tbl, nowStr) ==
    Cardinality({i \in 1..Len(tbl) : Eligible(tbl[i], nowStr)})

JobIdsOf(js) == {js.items[k].ID : k \in 1..Len(js.items)}

\* A statement writes into the open transaction of its connection, else it
\* commits on its own (autocommit).
Write(w, tbl) ==
    IF writer = w
    THEN txJobs' = tbl /\ UNCHANGED jobs
    ELSE jobs' = tbl /\ UNCHANGED txJobs

\* A worker that is in no call makes the next one: d.pool.Get(nil) returns
\* when the pool has a connection.
Call(w) ==
    /\ pc[w] = "idle"
    /\ free > 0

\* InsertJob, MarkCompleted and MarkFailed are one statement between
\* d.pool.Get(nil) and the deferred d.pool.Put(conn): one step that needs a
\* connection of the pool.
InsertJobOf(w, job) ==
    /\ Call(w)
    /\ CanWrite(w)
    /\ ConstraintOk(View(w), job)
    /\ Write(w, InsertRow(View(w), job))
    /\ out' = NoOut
    /\ race' = NoRace
    /\ UNCHANGED <<now, pc, free, arg, writer, users, app_config>>

InsertJob(w) == \E job \in JobInputsFor(View(w)) : InsertJobOf(w, job)

\* The INSERT violates a constraint of the schema: "queue insert failed".
InsertJobRejected(w) ==
    /\ Call(w)
    /\ CanWrite(w)
    /\ \E job \in JobInputsFor(View(w)) : ~ConstraintOk(View(w), job)
    /\ out' = NoOut
    /\ race' = NoRace
    /\ UNCHANGED <<jobs, now, pc, free, arg, writer, txJobs, users, app_config>>

MarkCompleted(w) ==
    /\ Call(w)
    /\ CanWrite(w)
    /\ \E jobID \in JobIDs :
        /\ Write(w, CompleteUpdate(View(w), jobID, Strftime(now)))
        /\ out' = Marked("MarkCompleted", View(w), jobID, "")
    /\ race' = NoRace
    /\ UNCHANGED <<now, pc, free, arg, writer, users, app_config>>

MarkFailed(w) ==
    /\ Call(w)
    /\ CanWrite(w)
    /\ \E jobID \in JobIDs, errMsg \in ErrMsgs :
        /\ Write(w, FailUpdate(View(w), jobID, errMsg))
        /\ out' = Marked("MarkFailed", View(w), jobID, errMsg)
    /\ race' = NoRace
    /\ UNCHANGED <<now, pc, free, arg, writer, users, app_config>>

\* conn := d.pool.Get(nil) of Claim.
ClaimStart(w) ==
    /\ Call(w)
    /\ free' = free - 1
    /\ pc' = [pc EXCEPT ![w] = "Claim"]
    /\ out' = NoOut
    /\ race' = NoRace
    /\ UNCHANGED <<jobs, now, arg, writer, txJobs, users, app_config>>

\* Two Claim calls race when both hold a connection before either has run its
\* statement.  The race is recorded from the statement of the first (n is the
\* number of eligible jobs it finds) to the return of the second, when nothing
\* happens in between.
RaceAfter(w, tbl, ids, limit) ==
    IF pc[Other(w)] = "Claim" /\ race.phase = "none"
    THEN [NoRace EXCEPT !.phase = "half",
                        !.n = EligibleCount(tbl, Strftime(now)),
                        !.ids1 = ids, !.lim1 = limit]
    ELSE IF race.phase = "half"
    THEN [race EXCEPT !.phase = "done", !.ids2 = ids, !.lim2 = limit]
    ELSE NoRace

\* The deferred d.pool.Put(conn) and the return to the caller.
Finish(w, r) ==
    /\ pc' = [pc EXCEPT ![w] = "idle"]
    /\ free' = free + 1
    /\ out' = r

\* The UPDATE ... RETURNING of Claim with its row callback, and the value
\* Claim returns.  The engine makes every change of the UPDATE before it
\* hands over the first RETURNING row; when the callback fails on a row (the
\* first of bad), Exec resets the statement, which commits it, and Claim
\* returns nil and the error.
ClaimStmt(w) ==
    \E limit \in Limits :
        LET tbl == View(w)
            ids == SelectIds(tbl, Strftime(now), limit)
            upd == ClaimUpdate(tbl, ids, Strftime(now))
            bad == SelectSeq(ids, LAMBDA i : CallbackError(upd[i]) # NoErr)
        IN  /\ \A k \in 1..Len(ids) : tbl[ids[k]].attempts < MaxClaims
            /\ Write(w, upd)
            /\ IF bad = <<>>
               THEN LET js == NilToEmpty(Appended(Returning(upd, ids)))
                    IN  /\ out' = Returned("Claim", NoErr, js, limit)
                        /\ race' = RaceAfter(w, tbl, JobIdsOf(js), limit)
               ELSE /\ out' = Returned("Claim",
                                       Errorf("failed to claim jobs",
                                              CallbackError(upd[bad[1]])),
                                       NilSlice, limit)
                    /\ race' = NoRace

\* Claim from its statement on, for a worker that holds a connection.
Claim(w) ==
    /\ pc[w] = "Claim"
    /\ CanWrite(w)
    /\ ClaimStmt(w)
    /\ pc' = [pc EXCEPT ![w] = "idle"]
    /\ free' = free + 1
    /\ UNCHANGED <<now, arg, writer, users, app_config>>

\* The statement of Claim fails in the engine (SQLITE_BUSY after the busy
\* timeout, an I/O error): nothing is written, "failed to claim jobs".
ClaimFail(w) ==
    /\ pc[w] = "Claim"
    /\ Finish(w, Returned("Claim", "failed to claim jobs", NilSlice, 0))
    /\ race' = NoRace
    /\ UNCHANGED <<jobs, now, arg, writer, txJobs, users, app_config>>

\* Claim as one step: connection, statement, Put, return.
ClaimCall(w) ==
    /\ Call(w)
    /\ CanWrite(w)
    /\ ClaimStmt(w)
    /\ UNCHANGED <<now, pc, free, arg, writer, users, app_config>>

\* Claim as one step, its statement failing in the engine.
ClaimCallFail(w) ==
    /\ Call(w)
    /\ out' = Returned("Claim", "failed to claim jobs", NilSlice, 0)
    /\ race' = NoRace
    /\ UNCHANGED <<jobs, now, pc, free, arg, writer, txJobs, users, app_config>>

\* MarkRecurrentCompleted up to BEGIN IMMEDIATE: the connection, then the
\* write lock; the transaction starts from the committed content.
MRCBegin(w) ==
    /\ Call(w)
    /\ writer = NoWriter
    /\ free' = free - 1
    /\ \E completedJobID \in JobIDs : arg' = [arg EXCEPT ![w] = completedJobID]
    /\ writer' = TxBegin(w)
    /\ txJobs' = jobs
    /\ pc' = [pc EXCEPT ![w] = "mrc_update"]
    /\ out' = NoOut
    /\ race' = NoRace
    /\ UNCHANGED <<jobs, now, users, app_config>>

\* BEGIN IMMEDIATE fails (another connection holds the write lock past the
\* busy timeout): the call returns its error, nothing was started.
MRCBeginFail(w) ==
    /\ Call(w)
    /\ out' = Returned("MarkRecurrentCompleted",
                       "failed to begin transaction for mark recurrent completed",
                       NilSlice, 0)
    /\ race' = NoRace
    /\ UNCHANGED <<jobs, now, pc, free, arg, writer, txJobs, users, app_config>>

\* The UPDATE of the transaction.
MRCUpdate(w) ==
    /\ pc[w] = "mrc_update"
    /\ Write(w, CompleteUpdate(View(w), arg[w], Strftime(now)))
    /\ pc' = [pc EXCEPT ![w] = "mrc_insert"]
    /\ out' = NoOut
    /\ UNCHANGED <<now, free, arg, writer, race, users, app_config>>

\* ROLLBACK, the deferred Put and the error return of a failed statement.
MRCAbort(w, err) ==
    /\ jobs' = Rollback(txJobs, jobs)
    /\ txJobs' = <<>>
    /\ writer' = NoWriter
    /\ Finish(w, Returned("MarkRecurrentCompleted", err, NilSlice, arg[w]))
    /\ arg' = [arg EXCEPT ![w] = 0]
    /\ UNCHANGED <<now, race, users, app_config>>

\* The UPDATE fails in the engine.
MRCUpdateFail(w) ==
    /\ pc[w] = "mrc_update"
    /\ MRCAbort(w, "failed to mark job completed in transaction")

\* The INSERT of the successor.
MRCInsert(w) ==
    /\ pc[w] = "mrc_insert"
    /\ \E newJob \in JobInputsFor(View(w)) :
        /\ ConstraintOk(View(w), newJob)
        /\ Write(w, InsertRow(View(w), newJob))
    /\ pc' = [pc EXCEPT ![w] = "mrc_commit"]
    /\ out' = NoOut
    /\ UNCHANGED <<now, free, arg, writer, race, users, app_config>>

\* The INSERT violates a constraint of the schema.
MRCInsertFail(w) ==
    /\ pc[w] = "mrc_insert"
    /\ \E newJob \in JobInputsFor(View(w)) : ~ConstraintOk(View(w), newJob)
    /\ MRCAbort(w, "failed to re-insert job in transaction")

\* COMMIT, the deferred Put and the nil return.
MRCCommit(w) ==
    /\ pc[w] = "mrc_commit"
    /\ jobs' = Commit(txJobs, jobs)
    /\ txJobs' = <<>>
    /\ writer' = NoWriter
    /\ Finish(w, Returned("MarkRecurrentCompleted", NoErr, NilSlice, arg[w]))
    /\ arg' = [arg EXCEPT ![w] = 0]
    /\ UNCHANGED <<now, race, users, app_config>>

Tick ==
    /\ now < MaxTick
    /\ now' = now + 1
    /\ out' = NoOut
    /\ race' = NoRace
    /\ UNCHANGED <<jobs, pc, free, arg, writer, txJobs, users, app_config>>

Next ==
    \/ \E w \in Workers : InsertJob(w)
    \/ \E w \in Workers : InsertJobRejected(w)
    \/ \E w \in Workers : MarkCompleted(w)
    \/ \E w \in Workers : MarkFailed(w)
    \/ \E w \in Workers : ClaimCall(w)
    \/ \E w \in Workers : ClaimCallFail(w)
    \/ \E w \in Workers : MRCBegin(w)
    \/ \E w \in Workers : MRCBeginFail(w)
    \/ \E w \in Workers : MRCUpdate(w)
    \/ \E w \in Workers : MRCUpdateFail(w)
    \/ \E w \in Workers : MRCInsert(w)
    \/ \E w \in Workers : MRCInsertFail(w)
    \/ \E w \in Workers : MRCCommit(w)
    \/ Tick

Spec == Init /\ [][Next]_vars

\* Two workers whose Claim calls overlap: each takes its connection, then runs
\* its statement.
NextRace ==
    \/ \E w \in Workers : InsertJob(w)
    \/ \E w \in Workers : MarkFailed(w)
    \/ \E w \in Workers : ClaimStart(w)
    \/ \E w \in Workers : Claim(w)
    \/ \E w \in Workers : ClaimFail(w)
    \/ Tick

SpecRace == Init /\ [][NextRace]_vars

\* ------------------------------------------------------- recurring jobs
\* MarkRecurrentCompleted as one step, every statement succeeding: BEGIN
\* IMMEDIATE, UPDATE, INSERT, COMMIT, Put, return nil.
MRCCall(w, completedJobID, newJob) ==
    /\ Call(w)
    /\ writer = NoWriter
    /\ LET upd == CompleteUpdate(jobs, completedJobID, Strftime(now))
       IN  /\ ConstraintOk(upd, newJob)
           /\ jobs' = Commit(InsertRow(upd, newJob), jobs)
    /\ out' = Returned("MarkRecurrentCompleted", NoErr, NilSlice,
                       completedJobID)
    /\ race' = NoRace
    /\ UNCHANGED <<now, pc, free, arg, writer, txJobs, users, app_config>>

\* The next occurrence of the recurring job in row id of tbl, as a worker
\* makes it at time t: the same job under the next unused payload, scheduled
\* one interval from t.
Successor(tbl, id, t) ==
    [JobType |-> tbl[id].job_type,
     Payload |-> <<Len(tbl) + 1>>,
     Attempts |-> 0,
     ScheduledFor |-> t + ParseDuration(tbl[id].interval),
     MaxAttempts |-> tbl[id].max_attempts,
     Recurrent |-> tbl[id].recurrent # 0,
     Interval |-> ParseDuration(tbl[id].interval)]

\* A producer inserts a recurring job.
InsertRecurring(w) ==
    \E job \in RecurringInputs :
        /\ job.Payload[1] <= Len(View(w)) + 1
        /\ InsertJobOf(w, job)

\* A worker that has finished a recurring job it had claimed completes it and
\* enqueues its next occurrence.
Reschedule(w) ==
    \E id \in 1..Len(jobs) :
        /\ Len(jobs) < NumPayloads
        /\ jobs[id].status = "processing"
        /\ jobs[id].recurrent # 0
        /\ MRCCall(w, id, Successor(jobs, id, now))

NextRecurrent ==
    \/ \E w \in Workers : InsertRecurring(w)
    \/ \E w \in Workers : ClaimCall(w)
    \/ \E w \in Workers : MarkFailed(w)
    \/ \E w \in Workers : Reschedule(w)
    \/ Tick

SpecRecurrent == Init /\ [][NextRecurrent]_vars

\* ------------------------------------------------------- a worker crashes
\* The jobs whose holder has crashed: arg[w] of a crashed worker w is the job
\* it held.
Lost == {arg[w] : w \in {v \in Workers : pc[v] = "crashed"}}

\* The worker that Claim has just returned job j to stops for good, before it
\* reports on j; the queue has no operation for this, the process is gone.  One
\* worker crashes at most, the other goes on.
Crash(w) ==
    /\ pc[w] = "idle"
    /\ \A v \in Workers : pc[v] # "crashed"
    /\ out.op = "Claim" /\ out.err = NoErr
    /\ \E j \in JobIdsOf(out.jobs) : arg' = [arg EXCEPT ![w] = j]
    /\ pc' = [pc EXCEPT ![w] = "crashed"]
    /\ out' = NoOut
    /\ race' = NoRace
    /\ UNCHANGED <<jobs, now, free, writer, txJobs, users, app_config>>

\* A worker reports on the jobs it holds, so never on a job whose holder has
\* crashed.
NextCrash ==
    \/ \E w \in Workers : InsertJob(w)
    \/ \E w \in Workers : ClaimCall(w)
    \/ \E w \in Workers : MarkCompleted(w) /\ out'.arg \notin Lost
    \/ \E w \in Workers : MarkFailed(w) /\ out'.arg \notin Lost
    \/ \E w \in Workers : Crash(w)
    \/ Tick

\* The workers that are alive keep calling Claim with a limit of 1 or more.
SpecCrash ==
    /\ Init
    /\ [][NextCrash]_vars
    /\ WF_vars(\E w \in Workers : ClaimCall(w) /\ out'.arg >= 1)

\* ---------------------------------------------------- inserts, reported
\* The result codes with which the engine rejects an INSERT.
ConstraintCheck == "SQLITE_CONSTRAINT_CHECK"
ConstraintUnique == "SQLITE_CONSTRAINT_UNIQUE"

\* The error of the engine for an INSERT of job into tbl that violates a
\* constraint: the CHECKs of a row are tested before its uniqueness.
ExecError(tbl, job) ==
    IF job.JobType = "" \/ job.Payload = <<>>
    THEN ConstraintCheck
    ELSE ConstraintUnique

\* What InsertJob returns.
Inserted(job, err) == [NoOut EXCEPT !.op = "InsertJob", !.err = err, !.job = job]

\* InsertJob as one step that keeps what it was called with and what it
\* returns: connection, INSERT, Put, nil or "queue insert failed: ...".
InsertJobCall(w) ==
    \E job \in JobInputsFor(View(w)) :
        /\ Call(w)
        /\ CanWrite(w)
        /\ IF ConstraintOk(View(w), job)
           THEN /\ Write(w, InsertRow(View(w), job))
                /\ out' = Inserted(job, NoErr)
           ELSE /\ out' = Inserted(job, Errorf("queue insert failed",
                                               ExecError(View(w), job)))
                /\ UNCHANGED <<jobs, txJobs>>
        /\ race' = NoRace
        /\ UNCHANGED <<now, pc, free, arg, writer, users, app_config>>

\* The INSERT of MarkRecurrentCompleted, with the engine's error kept in the
\* error the call returns when the INSERT is rejected.
MRCInsertCall(w) ==
    /\ pc[w] = "mrc_insert"
    /\ \E newJob \in JobInputsFor(View(w)) :
        IF ConstraintOk(View(w), newJob)
        THEN /\ Write(w, InsertRow(View(w), newJob))
             /\ pc' = [pc EXCEPT ![w] = "mrc_commit"]
             /\ out' = NoOut
             /\ UNCHANGED <<now, free, arg, writer, race, users, app_config>>
        ELSE MRCAbort(w, Errorf("failed to re-insert job in transaction",
                                ExecError(View(w), newJob)))

NextInsert ==
    \/ \E w \in Workers : InsertJobCall(w)
    \/ \E w \in Workers : MarkCompleted(w)
    \/ \E w \in Workers : MarkFailed(w)
    \/ \E w \in Workers : ClaimCall(w)
    \/ \E w \in Workers : MRCBegin(w)
    \/ \E w \in Workers : MRCUpdate(w)
    \/ \E w \in Workers : MRCInsertCall(w)
    \/ \E w \in Workers : MRCCommit(w)

SpecInsert == Init /\ [][NextInsert]_vars

\* ------------------------------------------- other callers of the pool
\* A worker inside Claim or MarkRecurrentCompleted holds a connection.
Holds(w) == pc[w] \in {"Claim", "mrc_update", "mrc_insert", "mrc_commit"}

\* The connections that callers of the pool other than the workers hold.
HeldByOthers == PoolSize - free - Cardinality({w \in Workers : Holds(w)})

\* Another caller of the pool (a request handler inside GetUserByEmail, the
\* application's own database layer, which shares the pool) takes a
\* connection with d.pool.Get(nil), and puts it back when it is done.
OtherGet ==
    /\ free > 0
    /\ free' = free - 1
    /\ out' = NoOut
    /\ race' = NoRace
    /\ UNCHANGED <<jobs, now, pc, arg, writer, txJobs, users, app_config>>

OtherPut ==
    /\ HeldByOthers > 0
    /\ free' = free + 1
    /\ out' = NoOut
    /\ race' = NoRace
    /\ UNCHANGED <<jobs, now, pc, arg, writer, txJobs, users, app_config>>

\* A queue operation called by worker w gets its connection, runs up to its
\* return or, in MarkRecurrentCompleted, up to BEGIN IMMEDIATE.
QueueCall(w) ==
    \/ InsertJob(w)
    \/ InsertJobRejected(w)
    \/ MarkCompleted(w)
    \/ MarkFailed(w)
    \/ ClaimCall(w)
    \/ ClaimCallFail(w)
    \/ MRCBegin(w)
    \/ MRCBeginFail(w)

NextPool ==
    \/ \E w \in Workers : QueueCall(w)
    \/ \E w \in Workers : MRCUpdate(w)
    \/ \E w \in Workers : MRCInsert(w)
    \/ \E w \in Workers : MRCCommit(w)
    \/ OtherGet
    \/ OtherPut

SpecPool == Init /\ [][NextPool]_vars

\* ---------------------------------------------------------------- users
\* The row of tbl with this email (email is unique: ON CONFLICT(email)), 0
\* when there is none.
UserRow(tbl, email) ==
    IF \E i \in 1..Len(tbl) : tbl[i].email = email
    THEN CHOOSE i \in 1..Len(tbl) : tbl[i].email = email
    ELSE 0

\* Faulty variants of the two upserts: the password passed in is always
\* written; the conflicting row is replaced by the new one.
UpsertPasswordOverwrites(tbl, user) ==
    LET i == UserRow(tbl, user.Email)
    IN  IF i = 0
        THEN Append(tbl, [email |-> user.Email, password |-> user.Password,
                          oauth2 |-> FALSE])
        ELSE [tbl EXCEPT ![i].password = user.Password]

UpsertOauth2Replaces(tbl, user) ==
    LET i == UserRow(tbl, user.Email)
    IN  IF i = 0
        THEN Append(tbl, [email |-> user.Email, password |-> "",
                          oauth2 |-> TRUE])
        ELSE [tbl EXCEPT ![i].password = "", ![i].oauth2 = TRUE]

\* INSERT INTO users (..., password, ..., oauth2, ..., email, ...)
\*   VALUES (..., user.Password, ..., false, ..., user.Email, ...)
\* ON CONFLICT(email) DO UPDATE SET
\*   password = IIF(password = '', excluded.password, password)
UpsertPassword(tbl, user) ==
    LET i == UserRow(tbl, user.Email)
    IN  IF i = 0
        THEN Append(tbl, [email |-> user.Email, password |-> user.Password,
                          oauth2 |-> FALSE])
        ELSE [tbl EXCEPT ![i].password =
                             IF @ = "" THEN user.Password ELSE @]

\* INSERT INTO users (..., password, ..., oauth2, ..., email, ...)
\*   VALUES (..., '', ..., true, ..., user.Email, ...)
\* ON CONFLICT(email) DO UPDATE SET oauth2 = true
UpsertOauth2(tbl, user) ==
    LET i == UserRow(tbl, user.Email)
    IN  IF i = 0
        THEN Append(tbl, [email |-> user.Email, password |-> "",
                          oauth2 |-> TRUE])
        ELSE [tbl EXCEPT ![i].oauth2 = TRUE]

\* newUserFromStmt on the RETURNING row of an upsert.
newUserFromStmt(row) ==
    [isNil |-> FALSE, Email |-> row.email, Password |-> row.password,
     Oauth2 |-> row.oauth2]

\* What an upsert of user into tbl returns, tbl2 being the table after it.
Created(op, tbl2, user) ==
    [NoOut EXCEPT !.op = op, !.given = user,
                  !.user = newUserFromStmt(tbl2[UserRow(tbl2, user.Email)])]

CreateUserWithPassword(w) ==
    /\ Call(w)
    /\ writer = NoWriter
    /\ \E user \in UserInputs :
        /\ users' = UpsertPassword(users, user)
        /\ out' = Created("CreateUserWithPassword", users', user)
    /\ race' = NoRace
    /\ UNCHANGED <<jobs, now, pc, free, arg, writer, txJobs, app_config>>

CreateUserWithOauth2(w) ==
    /\ Call(w)
    /\ writer = NoWriter
    /\ \E user \in UserInputs :
        /\ users' = UpsertOauth2(users, user)
        /\ out' = Created("CreateUserWithOauth2", users', user)
    /\ race' = NoRace
    /\ UNCHANGED <<jobs, now, pc, free, arg, writer, txJobs, app_config>>

NextUsers ==
    \/ \E w \in Workers : CreateUserWithPassword(w)
    \/ \E w \in Workers : CreateUserWithOauth2(w)

SpecUsers == Init /\ [][NextUsers]_vars

\* --------------------------------------------------------------- config
\* INSERT INTO app_config (scope, content, format, description, created_at)
\*   VALUES (?, ?, ?, ?, db.TimeFormat(time.Now()))
InsertConfig(w) ==
    /\ Call(w)
    /\ writer = NoWriter
    /\ Len(app_config) < MaxConfigs
    /\ \E scope \in Scopes, contentData \in Contents :
        app_config' = Append(app_config,
                             [scope |-> scope, content |-> contentData,
                              created_at |-> TimeFormat(now)])
    /\ out' = NoOut
    /\ race' = NoRace
    /\ UNCHANGED <<jobs, now, pc, free, arg, writer, txJobs, users>>

\* The rows of tbl for scope, and those of them that ORDER BY created_at DESC
\* may put first: the ones whose created_at no other exceeds.
ScopeRows(tbl, scope) == {i \in 1..Len(tbl) : tbl[i].scope = scope}
Newest(tbl, scope) ==
    {i \in ScopeRows(tbl, scope) :
        \A k \in ScopeRows(tbl, scope) :
            StrLeq(tbl[k].created_at, tbl[i].created_at)}

\* SELECT content FROM app_config WHERE scope = ? ORDER BY created_at DESC
\*   LIMIT 1: among rows of equal created_at the engine is free to choose.
LatestConfig(w) ==
    /\ Call(w)
    /\ \E scope \in Scopes :
        IF ScopeRows(app_config, scope) = {}
        THEN out' = [NoOut EXCEPT !.op = "LatestConfig", !.scope = scope]
        ELSE \E i \in Newest(app_config, scope) :
                 out' = [NoOut EXCEPT !.op = "LatestConfig", !.scope = scope,
                                      !.content = app_config[i].content]
    /\ race' = NoRace
    /\ UNCHANGED <<jobs, now, pc, free, arg, writer, txJobs, users, app_config>>

NextConfig ==
    \/ \E w \in Workers : InsertConfig(w)
    \/ \E w \in Workers : LatestConfig(w)
    \/ Tick

SpecConfig == Init /\ [][NextConfig]_vars

\* ------------------------------------------------------- COMMIT fails
\* COMMIT fails and the call returns its error; the code issues no ROLLBACK.
\* Either the engine has rolled the transaction back on its own (an I/O
\* error, a full disk), or it has left it open (SQLITE_BUSY): then the deferred
\* Put gives the connection back to the pool with the transaction open and
\* the write lock held.
MRCCommitFail(w) ==
    /\ pc[w] = "mrc_commit"
    /\ \/ /\ jobs' = Rollback(txJobs, jobs)
          /\ txJobs' = <<>>
          /\ writer' = NoWriter
       \/ UNCHANGED <<jobs, txJobs, writer>>
    /\ Finish(w, Returned("MarkRecurrentCompleted",
                          "failed to commit transaction for mark recurrent completed",
                          NilSlice, arg[w]))
    /\ arg' = [arg EXCEPT ![w] = 0]
    /\ UNCHANGED <<now, race, users, app_config>>

\* A connection lies in the pool with a transaction open; writer is the
\* worker whose next Get receives it.  The pool may as well hand it to v.
HandOver(v) ==
    /\ writer \in Workers \ {v}
    /\ pc[writer] = "idle"
    /\ pc[v] = "idle"
    /\ writer' = v
    /\ out' = NoOut
    /\ race' = NoRace
    /\ UNCHANGED <<jobs, now, pc, free, arg, txJobs, users, app_config>>

NextCommit ==
    \/ \E w \in Workers : InsertJob(w)
    \/ \E w \in Workers : ClaimCall(w)
    \/ \E w \in Workers : MarkFailed(w)
    \/ \E w \in Workers : MRCBegin(w)
    \/ \E w \in Workers : MRCBeginFail(w)
    \/ \E w \in Workers : MRCUpdate(w)
    \/ \E w \in Workers : MRCInsert(w)
    \/ \E w \in Workers : MRCCommit(w)
    \/ \E w \in Workers : MRCCommitFail(w)
    \/ \E w \in Workers : HandOver(w)

SpecCommit == Init /\ [][NextCommit]_vars

\* ------------------------------------------------- a malformed column
\* Another writer of the table (a migration, an import, an edit by hand)
\* leaves in a row an interval that is no duration.
Corrupt ==
    /\ writer = NoWriter
    /\ \E i \in 1..Len(jobs) :
        /\ jobs[i].interval # Malformed
        /\ jobs' = [jobs EXCEPT ![i].interval = Malformed]
    /\ out' = NoOut
    /\ race' = NoRace
    /\ UNCHANGED <<now, pc, free, arg, writer, txJobs, users, app_config>>

NextCorrupt ==
    \/ \E w \in Workers : InsertJob(w)
    \/ \E w \in Workers : ClaimCall(w)
    \/ \E w \in Workers : ClaimCallFail(w)
    \/ \E w \in Workers : MarkCompleted(w)
    \/ \E w \in Workers : MarkFailed(w)
    \/ Corrupt

SpecCorrupt == Init /\ [][NextCorrupt]_vars

\* ------------------------------------------------------- jobs that wait
\* The attempts column is read by no statement of the queue.  Where a job may
\* be claimed again and again the column is kept up to MaxClaims: a count of
\* MaxClaims stands for that count and for every greater one.
Counted(tbl) ==
    [i \in 1..Len(tbl) |-> [tbl[i] EXCEPT !.attempts = Min(@, MaxClaims)]]

\* Claim as one step (connection, UPDATE ... RETURNING with its row callback,
\* Put, return), with no bound on the number of times a job is claimed.
ClaimAgain(w) ==
    /\ Call(w)
    /\ CanWrite(w)
    /\ \E limit \in Limits :
        LET tbl == View(w)
            ids == SelectIds(tbl, Strftime(now), limit)
            upd == Counted(ClaimUpdate(tbl, ids, Strftime(now)))
            bad == SelectSeq(ids, LAMBDA i : CallbackError(upd[i]) # NoErr)
        IN  /\ Write(w, upd)
            /\ out' = IF bad = <<>>
                      THEN Returned("Claim", NoErr,
                                    NilToEmpty(Appended(Returning(upd, ids))),
                                    limit)
                      ELSE Returned("Claim",
                                    Errorf("failed to claim jobs",
                                           CallbackError(upd[bad[1]])),
                                    NilSlice, limit)
    /\ race' = NoRace
    /\ UNCHANGED <<now, pc, free, arg, writer, users, app_config>>

\* A worker reports the outcome of job j, which it holds: MarkCompleted or
\* MarkFailed on a row in processing.
Report(j) ==
    \E w \in Workers :
        /\ MarkCompleted(w) \/ MarkFailed(w)
        /\ out'.arg = j
        /\ out'.was = "processing"

NextWait ==
    \/ \E w \in Workers : InsertJob(w)
    \/ \E w \in Workers : ClaimAgain(w)
    \/ \E j \in JobIDs : Report(j)
    \/ Tick

\* Every worker keeps calling Claim with a limit of 1 or more, and every job
\* that was claimed is reported on.
SpecWait ==
    /\ Init
    /\ [][NextWait]_vars
    /\ \A w \in Workers : WF_vars(ClaimAgain(w) /\ out'.arg >= 1)
    /\ \A j \in JobIDs : WF_vars(Report(j))

\* ------------------------------------------- a completion called again
\* The newJob a caller passes to MarkRecurrentCompleted: a recurring job under
\* a payload of the producers or under one payload more, so that a successor
\* can be new when the producers have used theirs.
SuccessorInputs ==
    [JobType : {"email"}, Payload : {<<k>> : k \in 1..NumPayloads + 1},
     Attempts : {0}, ScheduledFor : SchedInputs, MaxAttempts : {1},
     Recurrent : {TRUE}, Interval : {Day}]

\* MarkRecurrentCompleted as one step, its INSERT rejected by the schema: BEGIN
\* IMMEDIATE, UPDATE, INSERT, ROLLBACK, Put, return the error.
MRCCallRejected(w, completedJobID, newJob) ==
    /\ Call(w)
    /\ writer = NoWriter
    /\ LET upd == CompleteUpdate(jobs, completedJobID, Strftime(now))
       IN  /\ ~ConstraintOk(upd, newJob)
           /\ jobs' = Rollback(upd, jobs)
           /\ out' = Returned("MarkRecurrentCompleted",
                              Errorf("failed to re-insert job in transaction",
                                     ExecError(upd, newJob)),
                              NilSlice, completedJobID)
    /\ race' = NoRace
    /\ UNCHANGED <<now, pc, free, arg, writer, txJobs, users, app_config>>

\* A worker calls MarkRecurrentCompleted for any id, also for one that a call
\* has completed before, with any newJob.
CompleteAgain(w) ==
    \E completedJobID \in JobIDs, newJob \in SuccessorInputs :
        /\ newJob.Payload[1] <= Len(jobs) + 1
        /\ \/ MRCCall(w, completedJobID, newJob)
           \/ MRCCallRejected(w, completedJobID, newJob)

\* The only operation that completes a job here is MarkRecurrentCompleted: a
\* row is completed when, and only when, a call for its id has returned nil.
NextAgain ==
    \/ \E w \in Workers : InsertRecurring(w)
    \/ \E w \in Workers : ClaimCall(w)
    \/ \E w \in Workers : CompleteAgain(w)
    \/ Tick

SpecAgain == Init /\ [][NextAgain]_vars

\* ------------------------------------------------------------ properties
\* The ids of the rows that are claim-eligible in tbl at time t: status pending
\* or failed, scheduled_for unset or not later than t.
ClaimEligible(tbl, t) ==
    {i \in 1..Len(tbl) :
        /\ tbl[i].status \in {"pending", "failed"}
        /\ \/ tbl[i].scheduled_for = <<>>
           \/ TimeParse(tbl[i].scheduled_for) <= t}

\* The step is the return of a Claim call with a nil error.
ClaimReturns == out'.op = "Claim" /\ out'.err = NoErr

\* The ids Claim returns in this step, and how many they are.
ClaimedIds == JobIdsOf(out'.jobs)
ClaimedLen == Len(out'.jobs.items)

\* The n smallest elements of a set of ids.
Smallest(S, n) == {i \in S : Cardinality({k \in S : k < i}) < n}

\* What a limit asks for: a limit below zero asks for no job.
Asked(limit) == IF limit < 0 THEN 0 ELSE limit

\* C1: two Claim calls that overlap, with limits lim1 and lim2, on a table with
\* n eligible jobs and nothing else in between, return disjoint sets of ids
\* whose union has exactly min(n, lim1 + lim2) elements (a negative limit
\* counted as zero).
C1_RaceDisjointAndFull ==
    race.phase = "done" =>
        /\ race.ids1 \cap race.ids2 = {}
        /\ Cardinality(race.ids1 \cup race.ids2)
               = Min(race.n, Asked(race.lim1) + Asked(race.lim2))

\* The step is a MarkCompleted or MarkFailed of job i, or the COMMIT of a
\* MarkRecurrentCompleted whose completedJobID is i.
ReportedOn(i) ==
    \/ jobs' = CompleteUpdate(jobs, i, Strftime(now))
    \/ \E errMsg \in ErrMsgs : jobs' = FailUpdate(jobs, i, errMsg)
    \/ \E w \in Workers :
           pc[w] = "mrc_commit" /\ pc'[w] = "idle" /\ arg[w] = i

\* C2: a job that Claim returns was not in processing and is in processing
\* afterwards, and a job in processing leaves that status only by a
\* MarkCompleted, MarkFailed or MarkRecurrentCompleted on it: between its
\* return by one Claim and such a call no Claim returns it again.
C2_HeldUntilReported ==
    [][/\ ClaimReturns =>
              \A i \in ClaimedIds :
                  jobs[i].status # "processing" /\ jobs'[i].status = "processing"
       /\ \A i \in 1..Len(jobs) :
              jobs[i].status = "processing" /\ jobs'[i].status # "processing"
                  => ReportedOn(i)]_vars

\* Claim returned a job, with a limit that had room for a second one, while
\* another job was in processing and was not returned.
C2_Witness ==
    /\ out.op = "Claim" /\ out.err = NoErr
    /\ out.arg >= 2
    /\ Len(out.jobs.items) = 1
    /\ \E k \in 1..Len(jobs) :
           k \notin JobIdsOf(out.jobs) /\ jobs[k].status = "processing"

\* Worker w is inside the transaction of MarkRecurrentCompleted.
InMRC(w) == pc[w] \in {"mrc_update", "mrc_insert", "mrc_commit"}

\* The committed table goes from tbl to tbl2 by both effects of
\* MarkRecurrentCompleted(id, ...): row id, when it exists, is completed, one
\* pending row is added, and every other row is as it was.
BothEffects(tbl, tbl2, id) ==
    /\ Len(tbl2) = Len(tbl) + 1
    /\ tbl2[Len(tbl2)].status = "pending"
    /\ \A i \in 1..Len(tbl) :
           IF i = id
           THEN tbl2[i].status = "completed" /\ tbl2[i].locked_at = <<>>
           ELSE tbl2[i] = tbl[i]

\* C3: while a MarkRecurrentCompleted is running, the table every other
\* connection reads does not change, except in the one step of its COMMIT,
\* which brings the completion and the successor together; when the call
\* returns, both are in the table or neither is.
C3_RecurrentAtomic ==
    [][\A w \in Workers :
           InMRC(w) =>
               \/ jobs' = jobs
               \/ /\ pc[w] = "mrc_commit"
                  /\ pc'[w] = "idle"
                  /\ out'.op = "MarkRecurrentCompleted" /\ out'.err = NoErr
                  /\ BothEffects(jobs, jobs', arg[w])]_vars

\* MarkRecurrentCompleted returned nil for a job that was in the table: the
\* job is completed and the last row is its pending successor.
C3_Witness ==
    /\ out.op = "MarkRecurrentCompleted" /\ out.err = NoErr
    /\ out.arg < Len(jobs)
    /\ jobs[out.arg].status = "completed"
    /\ jobs[Len(jobs)].status = "pending"

\* C4: from BEGIN IMMEDIATE to the failure of the UPDATE or of the INSERT the
\* committed table does not change, and the failing step returns an error with
\* the table as it was before the call (the job's status, locked_at,
\* last_error and completed_at included, and no row added) and with the write
\* lock released.
C4_FailureRollsBack ==
    [][\A w \in Workers :
           pc[w] \in {"mrc_update", "mrc_insert"} =>
               /\ jobs' = jobs
               /\ pc'[w] = "idle" =>
                      /\ out'.op = "MarkRecurrentCompleted"
                      /\ out'.err # NoErr
                      /\ out'.arg = arg[w]
                      /\ writer' = NoWriter]_vars

\* MarkRecurrentCompleted returned the error of its INSERT, after its UPDATE
\* had run on an existing job in processing: the job is still in processing.
C4_Witness ==
    /\ out.op = "MarkRecurrentCompleted"
    /\ out.err = "failed to re-insert job in transaction"
    /\ out.arg <= Len(jobs)
    /\ jobs[out.arg].status = "processing"
    /\ jobs[out.arg].completed_at = <<>>

\* Job j, as returned, is the row as the table holds it, column by column.
Snapshot(j, row) ==
    /\ j.JobType = row.job_type
    /\ j.Payload = row.payload
    /\ j.Status = row.status
    /\ j.Attempts = row.attempts
    /\ j.MaxAttempts = row.max_attempts
    /\ j.Recurrent = (row.recurrent # 0)
    /\ DurationString(j.Interval) = row.interval
    /\ ScheduledForStr(j.ScheduledFor) = row.scheduled_for
    /\ j.LockedBy = row.locked_by
    /\ ScheduledForStr(j.LockedAt) = row.locked_at
    /\ ScheduledForStr(j.CompletedAt) = row.completed_at
    /\ j.LastError = row.last_error

\* C5: every job Claim returns has status processing and attempts one more
\* than its row had before the call, and it is the row as stored after the
\* call.
C5_ClaimedSnapshot ==
    [][ClaimReturns =>
           \A k \in 1..ClaimedLen :
               LET j == out'.jobs.items[k]
               IN  /\ j.ID \in 1..Len(jobs)
                   /\ j.Status = "processing"
                   /\ j.Attempts = jobs[j.ID].attempts + 1
                   /\ Snapshot(j, jobs'[j.ID])]_vars

\* Claim returned a job it had returned before: attempts went from 1 to 2.
C5_Witness ==
    /\ out.op = "Claim" /\ out.err = NoErr
    /\ \E k \in 1..Len(out.jobs.items) :
           /\ out.jobs.items[k].Attempts = 2
           /\ out.jobs.items[k].Status = "processing"
           /\ out.jobs.items[k].LastError # ""

\* C6: Claim returns eligible jobs only, so none that was in processing or
\* completed, and all of them when they are at most limit.
C6_Eligibility ==
    [][ClaimReturns =>
           /\ ClaimedIds \subseteq ClaimEligible(jobs, now)
           /\ \A i \in ClaimedIds :
                  jobs[i].status \notin {"processing", "completed"}
           /\ Cardinality(ClaimEligible(jobs, now)) <= out'.arg
                  => ClaimedIds = ClaimEligible(jobs, now)]_vars

\* Claim, with room left in its limit, returned a job that had failed and left
\* behind a pending one, which is scheduled later.
C6_Witness ==
    /\ out.op = "Claim" /\ out.err = NoErr
    /\ out.arg > Len(out.jobs.items)
    /\ \E k \in 1..Len(out.jobs.items) : out.jobs.items[k].LastError # ""
    /\ \E i \in 1..Len(jobs) :
           /\ i \notin JobIdsOf(out.jobs)
           /\ jobs[i].status = "pending"
           /\ jobs[i].scheduled_for # <<>>

\* C7: the scheduled_for of a job Claim returns is unset or not later than the
\* time of the call.
C7_NotBeforeSchedule ==
    out.op = "Claim" /\ out.err = NoErr =>
        \A k \in 1..Len(out.jobs.items) :
            \/ out.jobs.items[k].ScheduledFor = ZeroTime
            \/ out.jobs.items[k].ScheduledFor <= now

\* Claim returned a job that has a scheduled_for, which has come.
C7_Witness ==
    /\ out.op = "Claim" /\ out.err = NoErr
    /\ \E k \in 1..Len(out.jobs.items) :
           /\ out.jobs.items[k].ScheduledFor # ZeroTime
           /\ out.jobs.items[k].ScheduledFor <= now

\* C8: Claim(limit) returns at most limit jobs; with a limit of zero or less
\* it returns none and changes no row.
C8_AtMostLimit ==
    [][ClaimReturns =>
           /\ out'.arg >= 0 => ClaimedLen <= out'.arg
           /\ out'.arg <= 0 => ClaimedLen = 0 /\ jobs' = jobs]_vars

\* C9: with more than limit jobs eligible, Claim(limit) returns the limit
\* eligible jobs of smallest id; what it returns is in ascending order of id.
C9_OldestFirst ==
    [][ClaimReturns =>
           /\ Cardinality(ClaimEligible(jobs, now)) > out'.arg
                  => ClaimedIds = Smallest(ClaimEligible(jobs, now), out'.arg)
           /\ \A k \in 1..(ClaimedLen - 1) :
                  out'.jobs.items[k].ID < out'.jobs.items[k + 1].ID]_vars

\* C10: with no job eligible, a Claim whose statement the engine executes
\* returns the empty slice, not nil, and a nil error; the table is unchanged,
\* also when the engine fails the statement.
C10_EmptyNotNil ==
    [][out'.op = "Claim" /\ ClaimEligible(jobs, now) = {} =>
           /\ jobs' = jobs
           /\ \/ out'.err = NoErr
                 /\ out'.jobs = [isNil |-> FALSE, items |-> <<>>]
              \/ out'.err = "failed to claim jobs"
                 /\ out'.jobs = NilSlice]_vars

\* Claim with a positive limit returned the empty slice although the table
\* has rows: none of them was eligible.
C10_Witness ==
    /\ out.op = "Claim" /\ out.err = NoErr
    /\ out.arg > 0
    /\ out.jobs = [isNil |-> FALSE, items |-> <<>>]
    /\ Len(jobs) > 0

\* Some job has been claimed MaxClaims times, where the model stops claiming.
ClaimsExhausted == \E i \in 1..Len(jobs) : jobs[i].attempts >= MaxClaims

\* C11: a job whose holder has crashed is returned by a later Claim, when the
\* other workers keep calling Claim with a limit of 1 or more (runs that reach
\* the model's bound on claims are left aside).
C11_CrashedJobClaimedAgain ==
    \A j \in JobIDs :
        (j \in Lost) ~>
            \/ out.op = "Claim" /\ out.err = NoErr /\ j \in JobIdsOf(out.jobs)
            \/ ClaimsExhausted

\* C12: completing a claimed recurring job with a successor scheduled one
\* interval from now adds exactly one row, pending, with the job_type,
\* recurrent and interval of the original and with scheduled_for at the second
\* of now + interval; the original row is completed and no other row changes;
\* and Claim returns no job before its scheduled_for.
C12_RecurrenceRoundTrip ==
    [][/\ out'.op = "MarkRecurrentCompleted" /\ out'.err = NoErr =>
              LET id == out'.arg
                  new == jobs'[Len(jobs')]
              IN  /\ Len(jobs') = Len(jobs) + 1
                  /\ new.status = "pending"
                  /\ new.job_type = jobs[id].job_type
                  /\ new.recurrent = 1 /\ jobs[id].recurrent = 1
                  /\ new.interval = jobs[id].interval
                  /\ ParseDuration(new.interval) = Day
                  /\ new.scheduled_for # <<>>
                  /\ TimeParse(new.scheduled_for)
                         = ((now + Day) \div TicksPerSecond) * TicksPerSecond
                  /\ jobs'[id].status = "completed"
                  /\ \A i \in 1..Len(jobs) : i # id => jobs'[i] = jobs[i]
       /\ ClaimReturns =>
              \A k \in 1..ClaimedLen :
                  \/ out'.jobs.items[k].ScheduledFor = ZeroTime
                  \/ out'.jobs.items[k].ScheduledFor <= now]_vars

\* Claim returned the successor of a recurring job, when its time had come:
\* the original is completed.
C12_Witness ==
    /\ out.op = "Claim" /\ out.err = NoErr
    /\ \E k \in 1..Len(out.jobs.items) :
           LET j == out.jobs.items[k]
           IN  /\ j.Recurrent /\ j.Interval = Day
               /\ j.ScheduledFor # ZeroTime /\ j.ScheduledFor <= now
               /\ j.ID > 1
               /\ jobs[j.ID - 1].status = "completed"

\* No row is added or removed and every row but row id is as it was.
OnlyRow(id) ==
    /\ Len(jobs') = Len(jobs)
    /\ \A i \in 1..Len(jobs) : i # id => jobs'[i] = jobs[i]

\* C13: MarkCompleted(id) returns nil, leaves row id completed with locked_at
\* and last_error cleared whatever its status was, and changes nothing else
\* but completed_at; on a row already completed it changes completed_at only.
C13_MarkCompletedIdempotent ==
    [][out'.op = "MarkCompleted" =>
           LET id == out'.arg
           IN  /\ out'.err = NoErr
               /\ OnlyRow(id)
               /\ id \in 1..Len(jobs) =>
                      /\ jobs'[id].status = "completed"
                      /\ jobs'[id].locked_at = <<>>
                      /\ jobs'[id].last_error = ""
                      /\ jobs'[id] =
                             [jobs[id] EXCEPT
                                  !.status = "completed",
                                  !.locked_at = <<>>,
                                  !.last_error = "",
                                  !.completed_at = jobs'[id].completed_at]
                      /\ jobs[id].status = "completed" =>
                             jobs'[id] =
                                 [jobs[id] EXCEPT
                                      !.completed_at = jobs'[id].completed_at]]_vars

\* MarkCompleted has run on a job that was completed already, and whose
\* attempts is not zero.
C13_Witness ==
    /\ out.op = "MarkCompleted" /\ out.was = "completed"
    /\ jobs[out.arg].status = "completed"
    /\ jobs[out.arg].attempts >= 1

\* C14: MarkFailed(id, message) leaves row id failed, with locked_at cleared
\* and last_error equal to message, whatever its status was, and changes
\* nothing else: not another row, not another column of the row.
C14_MarkFailedExact ==
    [][out'.op = "MarkFailed" =>
           LET id == out'.arg
           IN  /\ out'.err = NoErr
               /\ OnlyRow(id)
               /\ id \in 1..Len(jobs) =>
                      /\ jobs'[id].status = "failed"
                      /\ jobs'[id].locked_at = <<>>
                      /\ jobs'[id].last_error = out'.msg
                      /\ jobs'[id].attempts = jobs[id].attempts
                      /\ jobs'[id].payload = jobs[id].payload
                      /\ jobs'[id].scheduled_for = jobs[id].scheduled_for
                      /\ jobs'[id].completed_at = jobs[id].completed_at
                      /\ jobs'[id] =
                             [jobs[id] EXCEPT !.status = "failed",
                                              !.locked_at = <<>>,
                                              !.last_error = out'.msg]]_vars

\* MarkFailed has run, with a message, on a completed job whose attempts is
\* not zero: its completed_at and attempts are still there.
C14_Witness ==
    /\ out.op = "MarkFailed" /\ out.was = "completed"
    /\ out.msg # ""
    /\ jobs[out.arg].status = "failed"
    /\ jobs[out.arg].last_error = out.msg
    /\ jobs[out.arg].completed_at # <<>>
    /\ jobs[out.arg].attempts >= 1

\* C15: a failed job that is due is returned by the next Claim whose limit is
\* sufficient, with attempts one more than it had, whatever its max_attempts;
\* a job not yet claimed has attempts 0, so that after k cycles of Claim and
\* MarkFailed the next Claim returns it with attempts = k + 1.
C15_RetryWithoutCeiling ==
    [][/\ \A i \in 1..Len(jobs') :
              jobs'[i].status = "pending" => jobs'[i].attempts = 0
       /\ ClaimReturns /\ Cardinality(ClaimEligible(jobs, now)) <= out'.arg =>
              \A i \in ClaimEligible(jobs, now) :
                  jobs[i].status = "failed" =>
                      /\ i \in ClaimedIds
                      /\ jobs'[i].attempts = jobs[i].attempts + 1]_vars

\* C16: MarkFailed(id, message) on a completed job leaves it failed with a
\* last_error that is not empty.
C16_FailAfterComplete ==
    [][out'.op = "MarkFailed" /\ out'.was = "completed" =>
           /\ jobs'[out'.arg].status = "failed"
           /\ jobs'[out'.arg].last_error # ""]_vars

\* C17: the first Claim of a job returns it with attempts = 1 and status
\* processing; a Claim of a failed job returns it with attempts one more (2
\* after one failure) and with the last_error MarkFailed stored, which the
\* row keeps.
C17_RetryKeepsLastError ==
    [][ClaimReturns =>
           \A k \in 1..ClaimedLen :
               LET j == out'.jobs.items[k]
                   row == jobs[j.ID]
               IN  /\ j.Status = "processing"
                   /\ row.status = "pending" => j.Attempts = 1
                   /\ row.status = "failed" =>
                          /\ j.Attempts = row.attempts + 1
                          /\ j.LastError = row.last_error
                          /\ jobs'[j.ID].last_error = row.last_error]_vars

\* C18: last_error is non-empty only in a row whose status is failed.
C18_LastErrorOnlyWhenFailed ==
    \A i \in 1..Len(jobs) :
        jobs[i].last_error # "" => jobs[i].status = "failed"

\* C19: no step lowers the attempts of a row or removes a row; attempts
\* changes only in the rows a Claim returns, by exactly one, so MarkCompleted,
\* MarkFailed and MarkRecurrentCompleted leave it unchanged in every row.
C19_AttemptsOnlyByClaim ==
    [][/\ Len(jobs') >= Len(jobs)
       /\ \A i \in 1..Len(jobs) :
              /\ jobs'[i].attempts >= jobs[i].attempts
              /\ jobs'[i].attempts # jobs[i].attempts =>
                     ClaimReturns /\ i \in ClaimedIds
              /\ ClaimReturns /\ i \in ClaimedIds =>
                     jobs'[i].attempts = jobs[i].attempts + 1]_vars

\* MarkRecurrentCompleted has committed on a job whose attempts had reached
\* 2: it is still 2.
C19_Witness ==
    /\ out.op = "MarkRecurrentCompleted" /\ out.err = NoErr
    /\ out.arg < Len(jobs)
    /\ jobs[out.arg].status = "completed"
    /\ jobs[out.arg].attempts = 2
    /\ jobs[out.arg].last_error = ""
    /\ jobs[out.arg].completed_at # <<>>
    /\ now > 0

\* C20: locked_by and locked_at are both set in exactly the rows whose status
\* is processing.
C20_LockedIffProcessing ==
    \A i \in 1..Len(jobs) :
        (jobs[i].locked_by # "" /\ jobs[i].locked_at # <<>>)
            <=> jobs[i].status = "processing"

\* The step is the return of InsertJob, with nil or with an error.
InsertReturns == out'.op = "InsertJob"
InsertSucceeds == InsertReturns /\ out'.err = NoErr

\* The step is the nil return of MarkRecurrentCompleted.
RecurrentSucceeds == out'.op = "MarkRecurrentCompleted" /\ out'.err = NoErr

\* The last row of the table after the step.
NewRow == jobs'[Len(jobs')]

\* C21: the row a successful InsertJob adds has status pending and attempts 0,
\* and the job_type and max_attempts of the job passed in; the successor row a
\* successful MarkRecurrentCompleted adds has status pending and attempts 0.
C21_NewRowPendingZero ==
    [][/\ InsertSucceeds =>
              /\ NewRow.status = "pending"
              /\ NewRow.attempts = 0
              /\ NewRow.job_type = out'.job.JobType
              /\ NewRow.max_attempts = out'.job.MaxAttempts
       /\ RecurrentSucceeds =>
              /\ NewRow.status = "pending"
              /\ NewRow.attempts = 0]_vars

\* A job without job_type or without payload.
Invalid(job) == job.JobType = "" \/ job.Payload = <<>>

\* err is an error of the engine as InsertJob or MarkRecurrentCompleted passes
\* it on: the statement has been executed by the store, which rejected it.
RaisedByStore(err) ==
    \E msg \in {"queue insert failed", "failed to re-insert job in transaction"},
       code \in {ConstraintCheck, ConstraintUnique} :
        err = Errorf(msg, code)

\* C22: InsertJob of a job without job_type or without payload returns an
\* error that does not come from the store and adds no row; and a
\* MarkRecurrentCompleted that has begun its transaction is not given such a
\* successor, so its INSERT is not rejected by a CHECK of the schema.
C22_RejectedBeforeStore ==
    [][/\ InsertReturns /\ Invalid(out'.job) =>
              /\ out'.err # NoErr
              /\ ~RaisedByStore(out'.err)
              /\ jobs' = jobs
       /\ \A w \in Workers :
              pc[w] = "mrc_insert" /\ pc'[w] = "idle" =>
                  out'.err # Errorf("failed to re-insert job in transaction",
                                    ConstraintCheck)]_vars

\* db.ErrConstraintUnique, the error value the insert test expects for a
\* duplicate.
ErrConstraintUnique == "db.ErrConstraintUnique"

\* Some row of tbl has the payload of job.
Duplicate(tbl, job) == \E i \in 1..Len(tbl) : tbl[i].payload = job.Payload

\* C23: InsertJob of a job with a job_type, whose payload some row already
\* has, returns db.ErrConstraintUnique and leaves the table as it was.
C23_DuplicateDistinguished ==
    [][InsertReturns /\ out'.job.JobType # "" /\ Duplicate(jobs, out'.job) =>
           /\ out'.err = ErrConstraintUnique
           /\ jobs' = jobs]_vars

\* Row i is the same job before and after the step: an id keeps its job.
SameJob(i) ==
    /\ jobs'[i].job_type = jobs[i].job_type
    /\ jobs'[i].payload = jobs[i].payload

\* C25: no step removes a row or gives an id to another job, and a step adds
\* one row at most; a successful InsertJob adds exactly one row, under an id
\* no row had, and changes no other row; a successful MarkRecurrentCompleted
\* adds exactly one row; Claim, MarkCompleted, MarkFailed and a failed
\* InsertJob add none.
C25_IdsStableNoDelete ==
    [][/\ Len(jobs') >= Len(jobs)
       /\ Len(jobs') <= Len(jobs) + 1
       /\ \A i \in 1..Len(jobs) : SameJob(i)
       /\ InsertSucceeds =>
              /\ Len(jobs') = Len(jobs) + 1
              /\ NewRow.payload = out'.job.Payload
              /\ SubSeq(jobs', 1, Len(jobs)) = jobs
       /\ RecurrentSucceeds => Len(jobs') = Len(jobs) + 1
       /\ out'.op \in {"Claim", "MarkCompleted", "MarkFailed"} =>
              Len(jobs') = Len(jobs)
       /\ InsertReturns /\ out'.err # NoErr => jobs' = jobs]_vars

\* MarkRecurrentCompleted has committed on job 1, which had been claimed and
\* had failed: it is completed, still row 1, and its successor is row 2.
C25_Witness ==
    /\ out.op = "MarkRecurrentCompleted" /\ out.err = NoErr /\ out.arg = 1
    /\ Len(jobs) = 2
    /\ jobs[1].status = "completed" /\ jobs[1].attempts >= 1
    /\ jobs[1].payload = <<1>>
    /\ jobs[2].status = "pending" /\ jobs[2].payload = <<2>>

\* C24: a queue operation that a worker calls is never left waiting for a
\* connection: whatever the other callers of the pool hold, the call can
\* take a step, which runs the operation or returns an error.
C24_CallNeverBlocked ==
    \A w \in Workers : pc[w] = "idle" => ENABLED QueueCall(w)

\* The step is the return of CreateUserWithPassword, of CreateUserWithOauth2.
PasswordStep == out'.op = "CreateUserWithPassword"
Oauth2Step == out'.op = "CreateUserWithOauth2"

\* The row of the email the call is for, before and after the step.
Before == UserRow(users, out'.given.Email)
After == UserRow(users', out'.given.Email)

\* From a table without a row for their email, the two registrations of u and
\* v give the same table in either order: one more row, with the password of
\* u and oauth2 set.
EitherOrder ==
    \A u, v \in UserInputs :
        u.Email = v.Email /\ UserRow(users, u.Email) = 0 =>
            LET po == UpsertOauth2(UpsertPassword(users, u), v)
                op == UpsertPassword(UpsertOauth2(users, v), u)
            IN  /\ po = op
                /\ po = Append(users, [email |-> u.Email,
                                       password |-> u.Password,
                                       oauth2 |-> TRUE])

\* C26: CreateUserWithPassword and CreateUserWithOauth2 for one email leave
\* one row for it; the OAuth2 registration sets oauth2 and keeps the password
\* the row has, the password registration keeps oauth2 and writes its password
\* into a row that has none, so that the two in either order end with the
\* password given and oauth2 set; rows of other emails are not touched.
C26_BothMethodsKept ==
    /\ []EitherOrder
    /\ [][PasswordStep \/ Oauth2Step =>
              /\ After # 0
              /\ Cardinality({i \in 1..Len(users') :
                                 users'[i].email = out'.given.Email}) = 1
              /\ \A i \in 1..Len(users) : i # Before => users'[i] = users[i]
              /\ Oauth2Step =>
                     /\ users'[After].oauth2
                     /\ users'[After].password =
                            (IF Before = 0 THEN "" ELSE users[Before].password)
              /\ PasswordStep =>
                     /\ users'[After].oauth2 =
                            (IF Before = 0 THEN FALSE ELSE users[Before].oauth2)
                     /\ (Before = 0 \/ users[Before].password = "") =>
                            users'[After].password = out'.given.Password]_vars

\* CreateUserWithOauth2 has run for an email that has a password: it returned
\* the user with that password and with oauth2 set, and the other email has a
\* row too.
C26_Witness ==
    /\ out.op = "CreateUserWithOauth2"
    /\ out.user.Password = "pw1" /\ out.user.Oauth2
    /\ Len(users) = 2
    /\ users[UserRow(users, out.given.Email)].password = "pw1"
    /\ users[UserRow(users, out.given.Email)].oauth2

\* C27: CreateUserWithPassword for an email whose row has a password, with
\* another non-empty password, returns nil and the user, whose password is
\* still the first one, as is the stored one; no row is added.
C27_SecondPasswordIgnored ==
    [][(/\ PasswordStep
        /\ Before # 0
        /\ out'.given.Password # ""
        /\ users[Before].password \notin {"", out'.given.Password}) =>
           /\ out'.err = NoErr
           /\ ~out'.user.isNil
           /\ out'.user.Password = users[Before].password
           /\ users'[After].password = users[Before].password
           /\ Len(users') = Len(users)]_vars

\* CreateUserWithPassword was called with pw2 for an email registered with
\* pw1: it returned the user with pw1, which is what the only row holds.
C27_Witness ==
    /\ out.op = "CreateUserWithPassword" /\ out.err = NoErr
    /\ out.given.Password = "pw2"
    /\ out.user.Password = "pw1"
    /\ Len(users) = 1
    /\ users[1].password = "pw1" /\ ~users[1].oauth2

\* The row of tbl that the last insert for scope made, 0 when there is none.
LastInserted(tbl, scope) ==
    IF ScopeRows(tbl, scope) = {} THEN 0
    ELSE CHOOSE i \in ScopeRows(tbl, scope) :
             \A k \in ScopeRows(tbl, scope) : k <= i

\* C28: LatestConfig(scope) returns a nil error and the content of the most
\* recent InsertConfig for scope, whatever was inserted for other scopes and
\* also when the inserts fall in one second; it returns no content when no
\* row has the scope.
C28_LatestIsLastInserted ==
    [][out'.op = "LatestConfig" =>
           /\ out'.err = NoErr
           /\ out'.content =
                  (IF LastInserted(app_config, out'.scope) = 0 THEN NoContent
                   ELSE app_config[LastInserted(app_config, out'.scope)].content)]_vars

\* C29: a connection has a transaction open only while its worker is inside
\* MarkRecurrentCompleted, between BEGIN IMMEDIATE and the return: no
\* connection in the pool has one.
C29_PutWithoutTransaction ==
    \A w \in Workers : writer = w => InMRC(w)

\* C30: a Claim that returns an error returns no jobs and leaves the table as
\* it was: no row has gone to processing and no attempts has grown.
C30_FailedClaimClaimsNothing ==
    [][out'.op = "Claim" /\ out'.err # NoErr =>
           /\ out'.jobs = NilSlice
           /\ jobs' = jobs]_vars

\* C31: a job that is claim-eligible (pending or failed, scheduled_for unset
\* or not in the future) is returned by some later Claim, when the workers
\* keep calling Claim with a limit of 1 or more and report on every job they
\* claim, also when jobs of smaller id fail again and again.
C31_NoStarvation ==
    \A j \in JobIDs :
        (j \in ClaimEligible(jobs, now)) ~>
            (out.op = "Claim" /\ out.err = NoErr /\ j \in JobIdsOf(out.jobs))

\* C32: at most one successor row is created for an id: a
\* MarkRecurrentCompleted for an id that an earlier call has completed (with
\* its successor) adds no row.
C32_OneSuccessor ==
    [][RecurrentSucceeds /\ StatusOf(jobs, out'.arg) = "completed" =>
           Len(jobs') = Len(jobs)]_vars

\* C33: a MarkRecurrentCompleted that returns nil was called for the id of a
\* row of the table, and the row it adds comes with that row completed: for an
\* id that no row has, the call adds no row and does not return nil.
C33_SuccessorOnlyWithCompletion ==
    [][/\ RecurrentSucceeds => out'.arg \in 1..Len(jobs)
       /\ out'.op = "MarkRecurrentCompleted" /\ Len(jobs') > Len(jobs) =>
              /\ out'.arg \in 1..Len(jobs)
              /\ jobs'[out'.arg].status = "completed"]_vars
====
